---- MODULE Spec2Model ----
(***************************************************************************)
(* Result resolution and error translation of lib/http/endpoint.js:        *)
(* finalize, endpoint, openRosaEndpoint and sendError, for one request.    *)
(*                                                                         *)
(* A JavaScript value is a record of the properties the code probes        *)
(* (pipe, end, isExplicitPromise, then, isProblem, forOpenRosa, type,      *)
(* stack, ...).  null/undefined is the value whose `absent` flag is set.   *)
(***************************************************************************)
EXTENDS Naturals, Sequences, FiniteSets, TLC

\* Longest chain of Deferreds / LazyUnits awaited for one request.
MaxChain == 2

----------------------------------------------------------------------------
(* JavaScript values *)

NoDetails == [format |-> "", rawLength |-> 0, field |-> "", value |-> <<>>]

\* A plain object with none of the probed properties.
Base ==
  [name |-> "object", absent |-> FALSE,
   pipe |-> FALSE, end |-> FALSE, isExplicitPromise |-> FALSE, then |-> FALSE,
   isProblem |-> FALSE, httpCode |-> 0, message |-> "", problemCode |-> "",
   problemDetails |-> NoDetails,
   type |-> "", bodyLength |-> 0, stack |-> <<>>,
   code |-> 0, body |-> "",
   forOpenRosa |-> <<>>]

\* null / undefined.
Absent == [Base EXCEPT !.name = "undefined", !.absent = TRUE]

\* Problem.internal.emptyResponse(): the classified error finalize substitutes
\* for an absent result.
emptyResponse ==
  [Base EXCEPT !.name = "emptyResponse", !.isProblem = TRUE, !.httpCode = 500,
               !.message = "empty response", !.problemCode = "500.3"]

\* Problem.user.invalidHeader({ field, value }).
invalidHeader(field, value) ==
  [Base EXCEPT !.name = "invalidHeader", !.isProblem = TRUE, !.httpCode = 400,
               !.message = "invalid header", !.problemCode = "400.3",
               !.problemDetails = [NoDetails EXCEPT !.field = field, !.value = value]]

\* Problem.user.unparseable({ format, rawLength }).
unparseable(format, rawLength) ==
  [Base EXCEPT !.name = "unparseable", !.isProblem = TRUE, !.httpCode = 400,
               !.message = "unparseable", !.problemCode = "400.1",
               !.problemDetails = [NoDetails EXCEPT !.format = format, !.rawLength = rawLength]]

\* Problems a handler may produce itself.
notFound ==
  [Base EXCEPT !.name = "notFound", !.isProblem = TRUE, !.httpCode = 404,
               !.message = "Not Found", !.problemCode = "404.1"]

conflict ==
  [Base EXCEPT !.name = "conflict", !.isProblem = TRUE, !.httpCode = 409,
               !.message = "conflict", !.problemCode = "409.1"]

\* Option.of(x).orElse(y): y when x is null or undefined, x otherwise.
orElse(x, y) == IF x.absent THEN y ELSE x

\* Runtime faults raised by the JavaScript engine or the HTTP library.
TypeError(msg) ==
  [Base EXCEPT !.name = "TypeError", !.message = msg,
               !.stack = << <<"TypeError", "  at finalizer  ">> >>]

RangeError(msg) ==
  [Base EXCEPT !.name = "RangeError", !.message = msg,
               !.stack = << <<"RangeError", "  at writeHead  ">> >>]

----------------------------------------------------------------------------
(* What handlers return, what Deferreds settle with, what reaches sendError *)

\* { a: 1 }: serializable data.
PlainJson == [Base EXCEPT !.name = "a1"]

\* { code: 201, body: '<OpenRosaResponse/>' }: what an OpenRosa handler returns.
XmlResult == [Base EXCEPT !.name = "created", !.code = 201, !.body = "<OpenRosaResponse/>"]

PlainValues == {PlainJson, XmlResult}

Problems == {notFound, conflict}

\* A stream: pipe is a function; end may or may not be one.
Streamables ==
  {[Base EXCEPT !.name = "stream", !.pipe = TRUE, !.end = e] : e \in BOOLEAN}

\* A FutureQuery: isExplicitPromise === true, point() yields a promise.
LazyUnits == {[Base EXCEPT !.name = "futureQuery", !.isExplicitPromise = TRUE]}

\* A promise.
Deferreds == {[Base EXCEPT !.name = "promise", !.then = TRUE]}

\* Values carrying the capabilities of several variants at once.
MultiCapable ==
  {[Base EXCEPT !.name = "streamingProblem", !.pipe = TRUE, !.isProblem = TRUE,
                !.httpCode = 404, !.message = "Not Found", !.problemCode = "404.1"],
   [Base EXCEPT !.name = "thenableQuery", !.isExplicitPromise = TRUE, !.then = TRUE],
   [Base EXCEPT !.name = "thenableProblem", !.then = TRUE, !.isProblem = TRUE,
                !.httpCode = 409, !.message = "conflict", !.problemCode = "409.1"]}

Results ==
  {Absent} \cup PlainValues \cup Problems \cup Streamables \cup LazyUnits
           \cup Deferreds \cup MultiCapable

\* An Error thrown by handler code, with and without a stack.
Faults ==
  {[Base EXCEPT !.name = "Error", !.message = "boom", !.stack = s] :
      s \in {<<>>, << <<"Error: boom", "   at handler  ">> >>}}

\* body-parser's failure on a malformed JSON payload.
ParseFailures ==
  {[Base EXCEPT !.name = "SyntaxError", !.type = "entity.parse.failed",
                !.message = "Unexpected token", !.bodyLength = n] : n \in {0, 42}}

\* { forOpenRosa: x }.
wrap(x) == [Base EXCEPT !.name = "forOpenRosa", !.forOpenRosa = <<x>>]

\* What a Deferred may reject with.
Rejections == {Absent} \cup Problems \cup Faults \cup Streamables \cup Deferreds

\* What other middleware may hand to sendError directly.
UpstreamErrors ==
  Problems \cup Faults \cup ParseFailures \cup {wrap(p) : p \in Problems}
    \cup {[p EXCEPT !.forOpenRosa = <<notFound>>] : p \in {conflict}}
    \cup {[f EXCEPT !.type = "entity.parse.failed", !.isProblem = TRUE,
                    !.httpCode = 409, !.problemCode = "409.1"] : f \in Faults}

----------------------------------------------------------------------------
(* Request headers.  A header is <<>> when missing and <<v>> when present;   *)
(* a header value is a string cut into tokens at its spaces.                 *)

HttpDateBody == "Tue, 01 Jan 2030 00:00:00"

VersionHeaders == {<<>>, << <<"1.0">> >>, << <<"2.0">> >>, << <<"1.0", "beta">> >>}

DateHeaders ==
  {<<>>,
   << <<HttpDateBody, "GMT">> >>,
   << <<HttpDateBody, "GMT+0500">> >>,
   << <<HttpDateBody, "gmt", "(Pacific)">> >>,
   << <<HttpDateBody, "UTC">> >>,
   << <<HttpDateBody>> >>,
   << <<"yesterday", "GMT+0500">> >>}

\* Tokens the pattern /GMT.*$/i starts to match in.
MatchesGMT(token) == token \in {"GMT", "gmt", "GMT+0500"}

\* s.replace(/GMT.*$/i, 'GMT'): everything from the first GMT on becomes 'GMT'.
replaceGMT(s) ==
  LET hits == {i \in 1..Len(s) : MatchesGMT(s[i])}
  IN IF hits = {} THEN s
     ELSE LET first == CHOOSE i \in hits : \A j \in hits : i <= j
          IN Append(SubSeq(s, 1, first - 1), "GMT")

\* header.date == null ? null : header.date.replace(...)
patchedDate(date) == IF date = <<>> THEN <<>> ELSE <<replaceGMT(date[1])>>

\* DateTime.fromHTTP(x).isValid: an RFC 1123 date ending in the literal GMT.
fromHTTPisValid(x) == x # <<>> /\ x[1] = <<HttpDateBody, "GMT">>

Headers == [version : VersionHeaders, date : DateHeaders]

----------------------------------------------------------------------------
(* The response object *)

NoBody == [kind |-> "none", payload |-> "", message |-> <<>>, code |-> "",
           details |-> NoDetails, nature |-> "", stack |-> <<>>]

NoHeaders == [contentType |-> "", contentLanguage |-> "", openRosaVersion |-> "",
              acceptContentLength |-> "", date |-> ""]

FreshResponse ==
  [headers |-> NoHeaders, statusCode |-> 0, statusSet |-> 0, body |-> NoBody,
   sent |-> 0, piped |-> <<>>, finished |-> FALSE]

\* response.hasHeader('Content-Type')
hasContentType(response) == response.headers.contentType # ""

\* response.type(t): 'json' expands to its MIME type.
type(response, t) ==
  [response EXCEPT !.headers.contentType = IF t = "json" THEN "application/json" ELSE t]

\* response.status(code)
status(response, code) ==
  [response EXCEPT !.statusCode = code, !.statusSet = @ + 1]

\* response.send(body)
send(response, body) ==
  [response EXCEPT !.body = body, !.sent = @ + 1, !.finished = TRUE]

\* serialize(result): the wire form of a value, a JSON document naming it.
serialize(result) == [NoBody EXCEPT !.kind = "json", !.payload = result.name]

\* openRosaMessage(code, { nature, message }).body
openRosaMessage(code, nature, message) ==
  [NoBody EXCEPT !.kind = "xml", !.nature = nature, !.message = <<message>>]

----------------------------------------------------------------------------
(* State of one request *)

VARIABLES
  mode,      \* which entry point serves the request: "none", "endpoint", "openRosa", "middleware"
  pc,        \* where the request stands (see PcValues)
  awaiting,  \* the Deferred / LazyUnit whose settlement is awaited while pc = "pending"
  depth,     \* how many Deferreds have been awaited so far
  request,   \* headers, the 'close' event and its listeners
  response,  \* the response object
  calls,     \* every invocation made so far: handler, finalizer, success, failure, next, point, then,
             \* end, sendError, and the rejections delivered
  thrown,    \* the exception in flight while pc is "threw" or "unhandled"
  instances  \* model/instance: the class builder made, the objects made of it, the calls

vars == <<mode, pc, awaiting, depth, request, response, calls, thrown, instances>>

PcValues ==
  {"idle",       \* no request yet
   "pending",    \* a continuation is registered on a Deferred that has not settled
   "streaming",  \* a Streamable is piping into the response
   "next",       \* the downstream continuation holds an error, not yet rendered
   "responded",  \* the response was sent, or the stream completed
   "aborted",    \* the client closed while the stream was running
   "passedOn",   \* the downstream continuation was given no error: routing goes on
   "threw",      \* an exception is propagating out of the adapter to its caller
   "unhandled"}  \* an exception was raised inside a then-callback: nobody handles it

NoCalls ==
  [handler |-> <<>>, finalizer |-> <<>>, rejected |-> <<>>,
   success |-> <<>>, failure |-> <<>>, next |-> <<>>,
   point |-> <<>>, then |-> <<>>, end |-> <<>>, sendError |-> <<>>, stderr |-> <<>>]

\* The state as one record, so that the code's functions are operators on it.
World ==
  [mode |-> mode, pc |-> pc, awaiting |-> awaiting, depth |-> depth,
   request |-> request, response |-> response, calls |-> calls, thrown |-> thrown]

Becomes(w) ==
  /\ mode' = w.mode
  /\ pc' = w.pc
  /\ awaiting' = w.awaiting
  /\ depth' = w.depth
  /\ request' = w.request
  /\ response' = w.response
  /\ calls' = w.calls
  /\ thrown' = w.thrown
  /\ UNCHANGED instances

\* throw e
throw(w, e) == [w EXCEPT !.pc = "threw", !.thrown = e]

----------------------------------------------------------------------------
(* sendError: translate a propagated error into the one error response *)

\* x.trim() for the stack lines that occur.
trim(x) ==
  CASE x = "  at finalizer  " -> "at finalizer"
    [] x = "  at writeHead  " -> "at writeHead"
    [] x = "   at handler  " -> "at handler"
    [] OTHER -> x

\* a note of which branch a call of sendError took, and for which value
branchTaken(w, branch, error) ==
  [w EXCEPT !.calls.sendError =
              Append(@, [branch |-> branch, error |-> error,
                         sentBefore |-> w.response.sent,
                         statusBefore |-> w.response.statusSet])]

\* if (hasOwnProperty(error, 'forOpenRosa')): the XML rendering
sendErrorOpenRosa(w, error) ==
  LET problem == error.forOpenRosa[1]
      w1 == branchTaken(w, "forOpenRosa", error)
  IN [w1 EXCEPT !.pc = "responded",
                !.response = send(status(@, problem.httpCode),
                                  openRosaMessage(problem.code, "error", problem.message))]

\* else if (error.isProblem === true): the JSON rendering of a Problem
sendErrorProblem(w, error) ==
  LET w1 == branchTaken(w, "isProblem", error)
  IN [w1 EXCEPT !.pc = "responded",
                !.response = send(type(status(@, error.httpCode), "application/json"),
                                  [NoBody EXCEPT !.kind = "json",
                                                 !.message = <<error.message>>,
                                                 !.code = error.problemCode,
                                                 !.details = error.problemDetails])]

\* the branch for unclassified faults with the stack lines left as they are.
sendErrorUnhandledNoTrim(w, error) ==
  LET stackLines == error.stack
      w1 == branchTaken(w, "unhandled", error)
      w2 == [w1 EXCEPT !.calls.stderr = Append(@, error)]
  IN [w2 EXCEPT !.pc = "responded",
                !.response = send(type(status(@, 500), "application/json"),
                                  [NoBody EXCEPT !.kind = "json",
                                                 !.message = <<"Completely unhandled exception: ",
                                                               error.message>>,
                                                 !.stack = stackLines])]

\* else: an unclassified fault
sendErrorUnhandled(w, error) ==
  LET stackLines == IF error.stack # <<>>
                    THEN << [i \in 1..Len(error.stack[1]) |-> trim(error.stack[1][i])] >>
                    ELSE <<>>
      w1 == branchTaken(w, "unhandled", error)
      w2 == [w1 EXCEPT !.calls.stderr = Append(@, error)]
  IN [w2 EXCEPT !.pc = "responded",
                !.response = send(type(status(@, 500), "application/json"),
                                  [NoBody EXCEPT !.kind = "json",
                                                 !.message = <<"Completely unhandled exception: ",
                                                               error.message>>,
                                                 !.stack = stackLines])]

\* sendError with the isProblem test ahead of the forOpenRosa test.
RECURSIVE sendErrorProblemFirst(_, _)
sendErrorProblemFirst(w, error) ==
  IF error.absent
  THEN throw(w, TypeError("Cannot convert undefined or null to object"))
  ELSE IF error.isProblem
  THEN sendErrorProblem(w, error)
  ELSE IF error.forOpenRosa # <<>>
  THEN sendErrorOpenRosa(w, error)
  ELSE IF error.type = "entity.parse.failed"
  THEN sendErrorProblemFirst(branchTaken(w, "entity.parse.failed", error),
                             unparseable("json", error.bodyLength))
  ELSE sendErrorUnhandled(w, error)

\* sendError without the branch for body-decoding failures.
sendErrorParseAsFault(w, error) ==
  IF error.absent
  THEN throw(w, TypeError("Cannot convert undefined or null to object"))
  ELSE IF error.forOpenRosa # <<>>
  THEN sendErrorOpenRosa(w, error)
  ELSE IF error.isProblem
  THEN sendErrorProblem(w, error)
  ELSE sendErrorUnhandled(w, error)

RECURSIVE sendError(_, _)
sendError(w, error) ==
  IF error.absent
  THEN throw(w, TypeError("Cannot convert undefined or null to object"))
  ELSE IF error.forOpenRosa # <<>>
  THEN sendErrorOpenRosa(w, error)
  ELSE IF error.isProblem
  THEN sendErrorProblem(w, error)
  ELSE IF error.type = "entity.parse.failed"
  THEN sendError(branchTaken(w, "entity.parse.failed", error),
                 unparseable("json", error.bodyLength))
  ELSE sendErrorUnhandled(w, error)

----------------------------------------------------------------------------
(* The continuations of the two adapters *)

\* The downstream continuation (Express's next, rawNext): it takes the value
\* over, together with the response as it stands at that moment.
rawNext(w, x) ==
  [w EXCEPT !.pc = "next",
            !.calls.next = Append(@, [arg |-> x, headers |-> w.response.headers])]

\* a note that the adapter's failure continuation was called with x
failureCalled(w, x) == [w EXCEPT !.calls.failure = Append(@, x)]

\* endpoint: the failure continuation is next itself
endpointNext(w, x) == rawNext(failureCalled(w, x), x)

\* openRosaEndpoint's next without the wrapping.
openRosaNextUnwrapped(w, x) == rawNext(failureCalled(w, x), x)

\* openRosaEndpoint's next wrapping every error, Problem or not.
openRosaNextWrapsAll(w, x) ==
  rawNext(failureCalled(w, x), IF ~x.absent THEN wrap(x) ELSE x)

\* openRosaEndpoint: next wraps Problems as { forOpenRosa: x } and passes the rest on
openRosaNext(w, x) ==
  rawNext(failureCalled(w, x), IF (~x.absent) /\ x.isProblem THEN wrap(x) ELSE x)

\* endpoint's success with the Content-Type set whatever the response holds.
endpointSuccessAlwaysJson(w, result) ==
  LET w1 == [w EXCEPT !.calls.success = Append(@, result)]
  IN [w1 EXCEPT !.pc = "responded",
                !.response = send(status(type(@, "json"), 200), serialize(result))]

\* endpoint's success
endpointSuccess(w, result) ==
  LET w1 == [w EXCEPT !.calls.success = Append(@, result)]
      r1 == IF ~hasContentType(w1.response) THEN type(w1.response, "json") ELSE w1.response
  IN [w1 EXCEPT !.pc = "responded",
                !.response = send(status(r1, 200), serialize(result))]

\* openRosaEndpoint's success: response.status(result.code).send(result.body).
\* A result without a code leaves the status undefined, and writing the head
\* of such a response raises.
openRosaSuccess(w, result) ==
  LET w1 == [w EXCEPT !.calls.success = Append(@, result)]
  IN IF result.code = 0
     THEN throw([w1 EXCEPT !.response = status(@, 0)], RangeError("Invalid status code: undefined"))
     ELSE [w1 EXCEPT !.pc = "responded",
                     !.response = send(status(@, result.code),
                                       [NoBody EXCEPT !.kind = "raw", !.payload = result.body])]

success(w, result) ==
  IF w.mode = "openRosa" THEN openRosaSuccess(w, result) ELSE endpointSuccess(w, result)

failure(w, x) ==
  IF w.mode = "openRosa" THEN openRosaNext(w, x) ELSE endpointNext(w, x)

----------------------------------------------------------------------------
(* finalize: resolve intermediate results until a final one is reached *)

\* Whether finalize was given the request and the response: endpoint passes
\* both, openRosaEndpoint calls finalize(success, next) and passes neither.
hasRequest(w) == w.mode # "openRosa"

\* request.on('close', () => { if (typeof result.end === 'function') result.end(); })
onClose(w, result) == [w EXCEPT !.request.listeners = Append(@, result)]

\* result.pipe(response)
pipe(w, result) ==
  [w EXCEPT !.pc = "streaming", !.response.piped = Append(@, result.name)]

\* if (result.pipe != null) { request.on('close', ...); return result.pipe(response); }
stream(w, result) ==
  IF ~hasRequest(w)
  THEN throw(w, TypeError("Cannot read property 'on' of undefined"))
  ELSE pipe(onClose(w, result), result)

\* The promise result.point() yields.
pointed(result) == [Base EXCEPT !.name = "pointed", !.then = TRUE]

\* result.point()
point(w, result) == [w EXCEPT !.calls.point = Append(@, result)]

\* deferred.then(finalizer, failure): both continuations wait for the settlement
then(w, deferred) ==
  [w EXCEPT !.pc = "pending", !.awaiting = deferred, !.depth = @ + 1,
            !.calls.then = Append(@, deferred)]

\* a note that finalizer was entered with maybeResult
finalizerCalled(w, maybeResult) == [w EXCEPT !.calls.finalizer = Append(@, maybeResult)]

\* finalizer whose Problem branch does not return: success runs after failure.
finalizerFallsThrough(w0, maybeResult) ==
  LET w == finalizerCalled(w0, maybeResult)
      result == orElse(maybeResult, emptyResponse)
  IN IF result.pipe
     THEN stream(w, result)
     ELSE IF result.isExplicitPromise
     THEN then(point(w, result), pointed(result))
     ELSE IF result.then
     THEN then(w, result)
     ELSE IF result.isProblem
     THEN success(failure(w, result), result)
     ELSE success(w, result)

\* finalizer without the isProblem test: a Problem is sent like any value.
finalizerProblemAsValue(w0, maybeResult) ==
  LET w == finalizerCalled(w0, maybeResult)
      result == orElse(maybeResult, emptyResponse)
  IN IF result.pipe
     THEN stream(w, result)
     ELSE IF result.isExplicitPromise
     THEN then(point(w, result), pointed(result))
     ELSE IF result.then
     THEN then(w, result)
     ELSE success(w, result)

\* finalizer without the default for an absent result: probing null raises.
finalizerNoDefault(w0, maybeResult) ==
  LET w == finalizerCalled(w0, maybeResult)
      result == maybeResult
  IN IF result.absent
     THEN throw(w, TypeError("Cannot read property 'pipe' of null"))
     ELSE IF result.pipe
     THEN stream(w, result)
     ELSE IF result.isExplicitPromise
     THEN then(point(w, result), pointed(result))
     ELSE IF result.then
     THEN then(w, result)
     ELSE IF result.isProblem
     THEN failure(w, result)
     ELSE success(w, result)

\* finalizer that calls point() once to test it and once more to use it.
finalizerPointsTwice(w0, maybeResult) ==
  LET w == finalizerCalled(w0, maybeResult)
      result == orElse(maybeResult, emptyResponse)
  IN IF result.pipe
     THEN stream(w, result)
     ELSE IF result.isExplicitPromise
     THEN then(point(point(w, result), result), pointed(result))
     ELSE IF result.then
     THEN then(w, result)
     ELSE IF result.isProblem
     THEN failure(w, result)
     ELSE success(w, result)

\* finalizer that tests isProblem before anything else.
finalizerProblemFirst(w0, maybeResult) ==
  LET w == finalizerCalled(w0, maybeResult)
      result == orElse(maybeResult, emptyResponse)
  IN IF result.isProblem
     THEN failure(w, result)
     ELSE IF result.pipe
     THEN stream(w, result)
     ELSE IF result.isExplicitPromise
     THEN then(point(w, result), pointed(result))
     ELSE IF result.then
     THEN then(w, result)
     ELSE success(w, result)

finalizer(w0, maybeResult) ==
  LET w == finalizerCalled(w0, maybeResult)
      result == orElse(maybeResult, emptyResponse)
  IN IF result.pipe
     THEN stream(w, result)
     ELSE IF result.isExplicitPromise
     THEN then(point(w, result), pointed(result))
     ELSE IF result.then
     THEN then(w, result)
     ELSE IF result.isProblem
     THEN failure(w, result)
     ELSE success(w, result)

\* a rejection that is classified like a fulfilment.
rejectedWithClassified(w, e) == finalizer([w EXCEPT !.calls.rejected = Append(@, e)], e)

\* the awaited Deferred rejects with e: then()'s second continuation runs
rejectedWith(w, e) == failure([w EXCEPT !.calls.rejected = Append(@, e)], e)

\* then-callbacks whose exceptions go to failure, as a trailing
\* .catch(failure) would have it.
inCallbackCaught(w) == IF w.pc = "threw" THEN failure(w, w.thrown) ELSE w

\* An exception raised inside a then-callback rejects the promise then()
\* returned; finalizer's callers keep no reference to it, so nothing handles it.
inCallback(w) == IF w.pc = "threw" THEN [w EXCEPT !.pc = "unhandled"] ELSE w

----------------------------------------------------------------------------
(* The adapters *)

\* What a handler does when called: it may set a Content-Type, and returns a result.
Handlers == [result : Results, contentType : {"", "text/csv"}]

\* f(request, response)
handler(w, h) ==
  LET w1 == [w EXCEPT !.calls.handler =
                        Append(@, [saw |-> w.response.headers, set |-> h.contentType])]
  IN IF h.contentType = "" THEN w1
     ELSE [w1 EXCEPT !.response = type(@, h.contentType)]

endpoint(w, h) ==
  LET w1 == [w EXCEPT !.mode = "endpoint"]
  IN finalizer(handler(w1, h), h.result)

\* response.setHeader(...) x 4 and response.type('text/xml')
setOpenRosaHeaders(r) ==
  type([r EXCEPT !.headers.contentLanguage = "en",
                 !.headers.openRosaVersion = "1.0",
                 !.headers.acceptContentLength = "20000000",
                 !.headers.date = "now"],
       "text/xml")

\* openRosaEndpoint with the Date check ahead of the version check.
openRosaEndpointDateFirst(w, headers, h) ==
  LET w1 == [w EXCEPT !.mode = "openRosa", !.request.headers = headers]
      w2 == [w1 EXCEPT !.response = setOpenRosaHeaders(@)]
      header == w2.request.headers
  IN IF ~fromHTTPisValid(patchedDate(header.date))
     THEN openRosaNext(w2, invalidHeader("Date", header.date))
     ELSE IF header.version # << <<"1.0">> >>
     THEN openRosaNext(w2, invalidHeader("X-OpenRosa-Version", header.version))
     ELSE finalizer(handler(w2, h), h.result)

\* openRosaEndpoint with the response headers set only once the checks passed.
openRosaEndpointHeadersLate(w, headers, h) ==
  LET w1 == [w EXCEPT !.mode = "openRosa", !.request.headers = headers]
      w2 == [w1 EXCEPT !.response = setOpenRosaHeaders(@)]
      header == w1.request.headers
  IN IF header.version # << <<"1.0">> >>
     THEN openRosaNext(w1, invalidHeader("X-OpenRosa-Version", header.version))
     ELSE IF ~fromHTTPisValid(patchedDate(header.date))
     THEN openRosaNext(w1, invalidHeader("Date", header.date))
     ELSE finalizer(handler(w2, h), h.result)

openRosaEndpoint(w, headers, h) ==
  LET w1 == [w EXCEPT !.mode = "openRosa", !.request.headers = headers]
      w2 == [w1 EXCEPT !.response = setOpenRosaHeaders(@)]
      header == w2.request.headers
  IN IF header.version # << <<"1.0">> >>
     THEN openRosaNext(w2, invalidHeader("X-OpenRosa-Version", header.version))
     ELSE IF ~fromHTTPisValid(patchedDate(header.date))
     THEN openRosaNext(w2, invalidHeader("Date", header.date))
     ELSE finalizer(handler(w2, h), h.result)

----------------------------------------------------------------------------
(* The request's 'close' event *)

\* a 'close' that also abandons whatever the request is waiting for.
emitCloseCancelsPending(w) ==
  LET ended == SelectSeq(w.request.listeners, LAMBDA r : r.end)
  IN [w EXCEPT !.request.closed = TRUE,
               !.request.closedAt = w.pc,
               !.calls.end = @ \o ended,
               !.awaiting = Absent,
               !.pc = IF @ \in {"streaming", "pending"} THEN "aborted" ELSE @]

\* emit('close'): every listener runs, and calls end() where end is a function.
emitClose(w) ==
  LET ended == SelectSeq(w.request.listeners, LAMBDA r : r.end)
  IN [w EXCEPT !.request.closed = TRUE,
               !.request.closedAt = w.pc,
               !.calls.end = @ \o ended,
               !.pc = IF @ = "streaming" THEN "aborted" ELSE @]

----------------------------------------------------------------------------
(* model/instance: the databags of the model layer *)

\* how many objects the model lets exist, and how many traits be injected
MaxHeap == 3
MaxTraits == 2

\* property names and values of the databags
Fields == {"a", "b"}
Values == {1, 2}

\* the plain objects over these: each a function from its own property names
Datas == UNION {[S -> Values] : S \in SUBSET Fields}

\* ramda's merge(l, r): a new object with l's own properties overridden by r's
merge(l, r) ==
  [f \in (DOMAIN l) \cup (DOMAIN r) |-> IF f \in DOMAIN r THEN r[f] ELSE l[f]]

\* ramda's omit(names, obj): a new object with obj's own properties but those named
omit(names, obj) == [f \in (DOMAIN obj) \ names |-> obj[f]]

\* new InstanceBase(data): the class declares no constructor, data is ignored
InstanceBase(data) ==
  [class |-> "InstanceBase", props |-> omit(DOMAIN data, data), frozen |-> FALSE]

\* new Instance(data): Object.assign(this, data); Object.freeze(this); the loop
\* over the traits calls trait.constructor, which is Function, to no effect
Instance(data) == [class |-> "Instance", props |-> data, frozen |-> TRUE]

\* new (ctor)(data)
new(ctor, data) == IF ctor = "Instance" THEN Instance(data) ELSE InstanceBase(data)

\* builder(traitDefs): no trait yet, and Instance.prototype is
\* Object.create(InstanceBase.prototype), with no property of its own
builder == [traits |-> 0, ownConstructor |-> <<>>, heap |-> <<>>, calls |-> <<>>]

\* assignAll(Instance.prototype, trait.prototype): trait.prototype's own
\* function-valued properties, 'constructor' among them, are copied over
assignAll(st) == [st EXCEPT !.ownConstructor = <<"trait">>]

\* the injector builder returns: push the traits, decorate, and
\* Instance.prototype.constructor = Instance
inject(st) ==
  LET pushed == [st EXCEPT !.traits = @ + 1]
      decorated == assignAll(pushed)
  IN [decorated EXCEPT !.ownConstructor = <<"Instance">>]

\* this.constructor: the prototype's own property, else the one inherited
\* from InstanceBase.prototype
constructor(st, this) ==
  IF this.class = "Instance" /\ st.ownConstructor # <<>>
  THEN st.ownConstructor[1]
  ELSE "InstanceBase"

\* a note of a call of with or without on the object at place i
called(st, op, i, data, fields) ==
  [st EXCEPT !.calls = Append(@, [op |-> op, this |-> i, before |-> st.heap[i],
                                  data |-> data, fields |-> fields,
                                  returned |-> Len(st.heap) + 1])]

\* with(data) { return new (this.constructor)(merge(this, data)); }
with(st, i, data) ==
  LET this == st.heap[i]
      st1 == called(st, "with", i, data, {})
  IN [st1 EXCEPT !.heap = Append(@, new(constructor(st, this), merge(this.props, data)))]

\* without(...fields) { return new (this.constructor)(omit(fields, this)); }
without(st, i, fields) ==
  LET this == st.heap[i]
      st1 == called(st, "without", i, omit(DOMAIN this.props, this.props), fields)
  IN [st1 EXCEPT !.heap = Append(@, new(constructor(st, this), omit(fields, this.props)))]

----------------------------------------------------------------------------
(* Actions *)

Init ==
  /\ mode = "none"
  /\ pc = "idle"
  /\ awaiting = Absent
  /\ depth = 0
  /\ request = [headers |-> [version |-> <<>>, date |-> <<>>],
                closed |-> FALSE, closedAt |-> "", listeners |-> <<>>]
  /\ response = FreshResponse
  /\ calls = NoCalls
  /\ thrown = Absent
  /\ instances = builder

\* A request reaches a route wrapped by endpoint.
EndpointRequest ==
  /\ pc = "idle"
  /\ \E h \in Handlers : Becomes(endpoint(World, h))

\* A request reaches a route wrapped by openRosaEndpoint.
OpenRosaRequest ==
  /\ pc = "idle"
  /\ \E headers \in Headers, h \in Handlers : Becomes(openRosaEndpoint(World, headers, h))

\* Another middleware fails and its error reaches sendError.
UpstreamFailure ==
  /\ pc = "idle"
  /\ \E e \in UpstreamErrors : Becomes(sendError([World EXCEPT !.mode = "middleware"], e))

\* The awaited Deferred fulfils: finalizer runs on its value.
Fulfil ==
  /\ pc = "pending"
  /\ \E v \in Results :
       /\ (v.then \/ v.isExplicitPromise) => depth < MaxChain
       /\ Becomes(inCallback(finalizer([World EXCEPT !.awaiting = Absent], v)))

\* The awaited Deferred rejects: failure runs on the rejection value.
Reject ==
  /\ pc = "pending"
  /\ \E e \in Rejections :
       Becomes(inCallback(rejectedWith([World EXCEPT !.awaiting = Absent], e)))

\* The stream piped into the response ends normally.
StreamComplete ==
  /\ pc = "streaming"
  /\ Becomes([World EXCEPT !.pc = "responded", !.response.finished = TRUE])

\* The request emits 'close' (once in its life).
RequestClose ==
  /\ pc # "idle"
  /\ ~request.closed
  /\ Becomes(emitClose(World))

\* The error middleware behind the downstream continuation: an error goes to
\* sendError; no error (null, undefined) means routing simply goes on.
Downstream ==
  /\ pc = "next"
  /\ LET x == calls.next[Len(calls.next)].arg
     IN IF x.absent
        THEN Becomes([World EXCEPT !.pc = "passedOn"])
        ELSE Becomes(sendError(World, x))

\* An exception thrown out of an adapter is caught by the router and goes to
\* the error middleware as well.
RouterCatch ==
  /\ pc = "threw"
  /\ Becomes(sendError(World, thrown))

Next ==
  \/ EndpointRequest
  \/ OpenRosaRequest
  \/ UpstreamFailure
  \/ Fulfil
  \/ Reject
  \/ StreamComplete
  \/ RequestClose
  \/ Downstream
  \/ RouterCatch

Spec == Init /\ [][Next]_vars

\* model/instance on its own: the objects of one class builder made
Request == <<mode, pc, awaiting, depth, request, response, calls, thrown>>

\* new Instance(data)
NewInstance ==
  /\ Len(instances.heap) < MaxHeap
  /\ \E data \in Datas :
       instances' = [instances EXCEPT !.heap = Append(@, Instance(data))]
  /\ UNCHANGED Request

\* The injection container calls the injector.
Inject ==
  /\ instances.traits < MaxTraits
  /\ instances' = inject(instances)
  /\ UNCHANGED Request

\* some instance's with(data)
CallWith ==
  /\ Len(instances.heap) < MaxHeap
  /\ \E i \in 1..Len(instances.heap), data \in Datas :
       instances' = with(instances, i, data)
  /\ UNCHANGED Request

\* some instance's without(...fields)
CallWithout ==
  /\ Len(instances.heap) < MaxHeap
  /\ \E i \in 1..Len(instances.heap), fields \in SUBSET Fields :
       instances' = without(instances, i, fields)
  /\ UNCHANGED Request

InstanceNext ==
  \/ NewInstance
  \/ Inject
  \/ CallWith
  \/ CallWithout

InstanceSpec == Init /\ [][InstanceNext]_vars

TypeOK ==
  /\ mode \in {"none", "endpoint", "openRosa", "middleware"}
  /\ pc \in PcValues
  /\ depth \in 0..(MaxChain + 1)

----------------------------------------------------------------------------
(* Vocabulary of the properties *)

\* finalize is at work on this request
Resolving == mode \in {"endpoint", "openRosa"} /\ calls.finalizer # <<>>

\* ... and has nothing left to wait for
Finished == Resolving /\ pc \notin {"idle", "pending"}

\* the value finalizer was entered with last
LastSeen == calls.finalizer[Len(calls.finalizer)]

\* the awaited Deferred rejected
Rejected == calls.rejected # <<>>

\* what the resolution ended in: the rejection, or the last value classified
Outcome == IF Rejected THEN calls.rejected[1] ELSE LastSeen

\* the variants, as the data model defines them: one capability each
IsStreamable(v) == (~v.absent) /\ v.pipe
IsClassifiedError(v) ==
  (~v.absent) /\ v.isProblem /\ ~v.pipe /\ ~v.isExplicitPromise /\ ~v.then
IsPlainValue(v) ==
  (~v.absent) /\ ~v.isProblem /\ ~v.pipe /\ ~v.isExplicitPromise /\ ~v.then

CallbacksInvoked == Len(calls.success) + Len(calls.failure)

----------------------------------------------------------------------------
(* C1 *)

\* C1, as stated: whatever variant the resolution ends in, a Streamable
\* included, exactly one of success and failure has been invoked, once.
C1_ExactlyOneCallback == Finished => CallbacksInvoked = 1

\* C1, amended: success and failure are never both invoked nor either twice;
\* a finished resolution has invoked exactly one of them once, unless it ended
\* in a value with pipe, and then it has invoked neither.
C1_OneCallbackUnlessStreamed ==
  /\ CallbacksInvoked <= 1
  /\ Finished =>
       CallbacksInvoked = (IF (~Rejected) /\ IsStreamable(LastSeen) THEN 0 ELSE 1)

\* A chain of MaxChain Deferreds that ends in a ClassifiedError has called failure once.
C1_Witness ==
  /\ Finished
  /\ depth = MaxChain
  /\ IsClassifiedError(Outcome)
  /\ Len(calls.failure) = 1
  /\ calls.success = <<>>

----------------------------------------------------------------------------
(* C2 *)

\* the handler's plain values are what the adapter's success can send
ContractKept ==
  \A i \in 1..Len(calls.finalizer) :
    (mode = "openRosa" /\ IsPlainValue(calls.finalizer[i])) => calls.finalizer[i].code # 0

\* C2, as stated: whatever Result variant the handler returns, no request ends
\* in a fault that nothing catches instead of a response.
C2_NoUncaughtFault == ContractKept => pc # "unhandled"

----------------------------------------------------------------------------
(* C3 *)

\* the stream piped into the response has ended normally
StreamCompleted == response.piped # <<>> /\ response.finished

\* C3, as stated: end is invoked at most once per request, and not at all for
\* a stream that completes normally.
C3_ReleaseAtMostOnce ==
  /\ Len(calls.end) <= 1
  /\ StreamCompleted => calls.end = <<>>

----------------------------------------------------------------------------
(* C4 *)

\* The Date headers that are a valid HTTP date once a trailing zone suffix is
\* cut back to GMT.
AcceptableDates ==
  {<< <<HttpDateBody, "GMT">> >>,
   << <<HttpDateBody, "GMT+0500">> >>,
   << <<HttpDateBody, "gmt", "(Pacific)">> >>}

\* C4: a request whose X-OpenRosa-Version is not exactly 1.0, or else whose
\* Date is missing or invalid, never reaches the handler, and the failure
\* continuation is called exactly once with the invalidHeader UserError that
\* names the first violated field and the value received; every other request
\* has its handler called exactly once.
C4_GateBeforeHandler ==
  mode = "openRosa" =>
    LET v == request.headers.version
        d == request.headers.date
    IN IF v # << <<"1.0">> >>
       THEN /\ calls.handler = <<>>
            /\ calls.failure = <<invalidHeader("X-OpenRosa-Version", v)>>
       ELSE IF d \notin AcceptableDates
       THEN /\ calls.handler = <<>>
            /\ calls.failure = <<invalidHeader("Date", d)>>
       ELSE Len(calls.handler) = 1

\* A request with the right version and an unparseable Date was turned away.
C4_Witness ==
  /\ mode = "openRosa"
  /\ request.headers.version = << <<"1.0">> >>
  /\ request.headers.date = << <<"yesterday", "GMT+0500">> >>
  /\ calls.handler = <<>>
  /\ Len(calls.failure) = 1
  /\ calls.failure[1].problemDetails.field = "Date"

----------------------------------------------------------------------------
(* C5 *)

AllHeadersSet(h) ==
  /\ h.contentLanguage = "en"
  /\ h.openRosaVersion = "1.0"
  /\ h.acceptContentLength = "20000000"
  /\ h.date # ""

\* C5: whenever openRosaEndpoint has called the downstream continuation or the
\* handler, the four mandated headers were on the response at that call.
C5_HeadersBeforeGate ==
  mode = "openRosa" =>
    /\ \A i \in 1..Len(calls.next) : AllHeadersSet(calls.next[i].headers)
    /\ \A i \in 1..Len(calls.handler) : AllHeadersSet(calls.handler[i].saw)
    /\ AllHeadersSet(response.headers)

\* A rejected request: no handler call, and the headers were there at the handoff.
C5_Witness ==
  /\ mode = "openRosa"
  /\ calls.handler = <<>>
  /\ Len(calls.next) = 1
  /\ AllHeadersSet(calls.next[1].headers)

----------------------------------------------------------------------------
(* C6 *)

\* C6: every Problem the failure continuation of openRosaEndpoint is called
\* with goes downstream as { forOpenRosa: problem }, and sendError answers it
\* from the XML branch alone, with the Problem's httpCode and message, the
\* Content-Type left as it was handed over.
C6_WrappedAndXml ==
  mode = "openRosa" =>
    /\ Len(calls.next) = Len(calls.failure)
    /\ \A i \in 1..Len(calls.failure) :
         ((~calls.failure[i].absent) /\ calls.failure[i].isProblem)
           => calls.next[i].arg = wrap(calls.failure[i])
    /\ (pc = "responded" /\ calls.next # <<>> /\ calls.next[1].arg.forOpenRosa # <<>>) =>
         LET problem == calls.failure[1]
         IN /\ Len(calls.sendError) = 1
            /\ calls.sendError[1].branch = "forOpenRosa"
            /\ response.statusCode = problem.httpCode
            /\ response.body.kind = "xml"
            /\ response.body.nature = "error"
            /\ response.body.message = <<problem.message>>
            /\ response.headers.contentType = calls.next[1].headers.contentType

\* A Deferred resolved to nothing: the empty-response Problem was rendered as XML.
C6_Witness ==
  /\ mode = "openRosa"
  /\ pc = "responded"
  /\ depth > 0
  /\ calls.failure = <<emptyResponse>>
  /\ Len(calls.sendError) = 1
  /\ calls.sendError[1].branch = "forOpenRosa"
  /\ response.statusCode = emptyResponse.httpCode
  /\ response.body.kind = "xml"

----------------------------------------------------------------------------
(* C7 *)

\* C7: a call of sendError writes status and body exactly once, from the
\* first branch that applies: forOpenRosa, then isProblem, then
\* entity.parse.failed, then the unclassified fault.
C7_OneBranchByPriority ==
  (calls.sendError # <<>> /\ pc = "responded") =>
    LET call == calls.sendError[1]
        e == call.error
    IN /\ response.sent = call.sentBefore + 1
       /\ response.statusSet = call.statusBefore + 1
       /\ IF e.forOpenRosa # <<>>
          THEN /\ response.body.kind = "xml"
               /\ response.statusCode = e.forOpenRosa[1].httpCode
               /\ response.body.message = <<e.forOpenRosa[1].message>>
          ELSE IF e.isProblem
          THEN /\ response.body.kind = "json"
               /\ response.statusCode = e.httpCode
               /\ response.body.code = e.problemCode
               /\ response.body.message = <<e.message>>
          ELSE IF e.type = "entity.parse.failed"
          THEN /\ response.body.kind = "json"
               /\ response.statusCode = 400
               /\ response.body.code = "400.1"
          ELSE /\ response.body.kind = "json"
               /\ response.statusCode = 500
               /\ response.body.code = ""
               /\ calls.stderr = <<e>>

\* A value that is a Problem and carries forOpenRosa as well was rendered as XML.
C7_Witness ==
  /\ calls.sendError # <<>>
  /\ pc = "responded"
  /\ calls.sendError[1].error.isProblem
  /\ calls.sendError[1].error.forOpenRosa # <<>>
  /\ response.body.kind = "xml"
  /\ response.sent = 1

----------------------------------------------------------------------------
(* C8 *)

\* C8: when a resolution under endpoint ends in a ClassifiedError, next has
\* been called exactly once, with that very value; the adapter has not called
\* success, set a status or written a body; and the error is rendered by one
\* call of sendError.
C8_ErrorGoesToNext ==
  (mode = "endpoint" /\ Finished /\ IsClassifiedError(Outcome)) =>
    /\ Len(calls.next) = 1
    /\ calls.next[1].arg = Outcome
    /\ calls.success = <<>>
    /\ response.statusCode # 200
    /\ pc = "next" =>
         response.sent = 0 /\ response.statusSet = 0 /\ response.body = NoBody
    /\ pc # "next" =>
         /\ Len(calls.sendError) = 1
         /\ response.sent = 1
         /\ response.statusCode = Outcome.httpCode

\* A Deferred fulfilled with the not-found Problem; it was answered 404.
C8_Witness ==
  /\ mode = "endpoint"
  /\ pc = "responded"
  /\ depth > 0
  /\ ~Rejected
  /\ LastSeen = notFound
  /\ Len(calls.next) = 1
  /\ response.statusCode = 404

----------------------------------------------------------------------------
(* C9 *)

\* C9: when a resolution under endpoint ends in a plain value, the response
\* has status 200 and the serialized value as its body, sent once; its
\* Content-Type is the one the handler set, and JSON when it set none.
C9_PlainValueSent ==
  (mode = "endpoint" /\ Finished /\ (~Rejected) /\ IsPlainValue(LastSeen)) =>
    /\ response.statusCode = 200
    /\ response.statusSet = 1
    /\ response.sent = 1
    /\ response.body.kind = "json"
    /\ response.body.payload = LastSeen.name
    /\ response.headers.contentType =
         (IF calls.handler[1].set # "" THEN calls.handler[1].set ELSE "application/json")
    /\ calls.next = <<>>

\* The handler chose text/csv and returned a plain value: 200, still text/csv.
C9_Witness ==
  /\ mode = "endpoint"
  /\ pc = "responded"
  /\ calls.finalizer # <<>>
  /\ LastSeen = PlainJson
  /\ response.headers.contentType = "text/csv"
  /\ response.statusCode = 200
  /\ response.sent = 1

----------------------------------------------------------------------------
(* C10 *)

----------------------------------------------------------------------------
(* C11 *)

\* C11, as stated: when a handler under endpoint returns null, or its promise
\* resolves to null, the error handed on is a not-found Problem and the
\* response, once rendered, is a 404.
C11_NullIsNotFound ==
  (mode = "endpoint" /\ Finished /\ (~Rejected) /\ LastSeen.absent) =>
    /\ Len(calls.failure) = 1
    /\ calls.failure[1].httpCode = 404
    /\ pc = "responded" => response.statusCode = 404

----------------------------------------------------------------------------
(* C12 *)

\* a value the explicit marker makes a LazyUnit
IsLazyUnit(v) == (~v.absent) /\ v.isExplicitPromise /\ ~v.pipe

IsPointed(d) == d = pointed(d)

\* C12: point() has been called exactly once for each LazyUnit the resolution
\* has reached, in the order they were reached, and never otherwise; each
\* call is followed by one registration on the Deferred it yielded.
C12_PointOncePerLazyUnit ==
  /\ calls.point = SelectSeq(calls.finalizer, IsLazyUnit)
  /\ Len(SelectSeq(calls.then, IsPointed)) = Len(calls.point)

\* A LazyUnit was invoked, its Deferred fulfilled with a plain value, and the
\* response was sent: one call of point().
C12_Witness ==
  /\ mode = "endpoint"
  /\ pc = "responded"
  /\ Len(calls.finalizer) = 2
  /\ IsLazyUnit(calls.finalizer[1])
  /\ IsPlainValue(calls.finalizer[2])
  /\ Len(calls.point) = 1

----------------------------------------------------------------------------
(* C13 *)

\* sendError was entered with a body-decoding failure
IsParseFailure(e) ==
  (~e.absent) /\ e.forOpenRosa = <<>> /\ (~e.isProblem)
              /\ e.type = "entity.parse.failed"

\* C13: when sendError is given a body-decoding failure it calls itself once
\* more, with the 'unparseable' Problem for format json and the length of the
\* raw body; that second call takes the JSON branch for Problems, the status
\* sent is that Problem's httpCode, a 4xx, and the branch for unclassified
\* faults is not taken (nothing is written to stderr).
C13_ParseFailureIsUnparseable ==
  (calls.sendError # <<>> /\ IsParseFailure(calls.sendError[1].error)) =>
    LET e == calls.sendError[1].error
        p == unparseable("json", e.bodyLength)
    IN /\ Len(calls.sendError) = 2
       /\ calls.sendError[1].branch = "entity.parse.failed"
       /\ calls.sendError[2].branch = "isProblem"
       /\ calls.sendError[2].error = p
       /\ p.problemDetails.format = "json"
       /\ p.problemDetails.rawLength = e.bodyLength
       /\ pc = "responded"
       /\ response.statusCode = p.httpCode
       /\ response.statusCode \in 400..499
       /\ response.body.details = p.problemDetails
       /\ response.sent = 1
       /\ calls.stderr = <<>>

\* A body of 42 bytes failed to decode and the 400 has been sent.
C13_Witness ==
  /\ Len(calls.sendError) = 2
  /\ IsParseFailure(calls.sendError[1].error)
  /\ calls.sendError[1].error.bodyLength = 42
  /\ response.body.details.rawLength = 42
  /\ response.statusCode = 400

----------------------------------------------------------------------------
(* C14 *)

\* C14: a 'close' of the request while a Deferred is awaited changes nothing
\* but the request: the Deferred is still awaited and can still settle, no
\* end() is called then or later, and once it has settled to something other
\* than a Streamable exactly one of success and failure has been called. end()
\* is only ever called on a Streamable that was piped into the response.
C14_CloseCancelsNothing ==
  /\ [][(pc = "pending" /\ (~request.closed) /\ request'.closed) =>
          /\ pc' = "pending"
          /\ awaiting' = awaiting
          /\ depth' = depth
          /\ calls' = calls
          /\ response' = response
          /\ thrown' = thrown]_vars
  /\ [](request.closedAt = "pending" =>
          /\ calls.end = <<>>
          /\ pc = "pending" => ENABLED (Fulfil \/ Reject)
          /\ (Finished /\ (Rejected \/ ~IsStreamable(LastSeen))) =>
               CallbacksInvoked = 1)
  /\ [](calls.end # <<>> =>
          /\ request.closedAt # "pending"
          /\ response.piped # <<>>
          /\ \A i \in 1..Len(calls.end) : IsStreamable(calls.end[i]))

\* The request closed while a Deferred was awaited; the Deferred fulfilled
\* afterwards and its value was sent.
C14_Witness ==
  /\ request.closedAt = "pending"
  /\ pc = "responded"
  /\ Len(calls.success) = 1
  /\ response.sent = 1

----------------------------------------------------------------------------
(* C15 *)

\* a value only the then test catches
IsDeferred(v) == (~v.absent) /\ (~v.pipe) /\ (~v.isExplicitPromise) /\ v.then

IsAbsent(v) == v.absent

IsNotPointed(d) == ~IsPointed(d)

\* how many of the values finalizer was entered with pass Test
Seen(Test(_)) == Len(SelectSeq(calls.finalizer, Test))

\* C15: every value finalizer was entered with has had the effect of exactly
\* one branch, the first that matches in the order absent, pipe,
\* isExplicitPromise, then, isProblem, plain: the Streamables were piped (or,
\* without a request object, raised at the registration of the listener) and
\* nothing else, the LazyUnits were invoked through point(), the Deferreds were
\* registered on directly, absent values and Problems went to failure, plain
\* values went to success.
C15_OneBranchInOrder ==
  /\ Len(response.piped) = (IF mode = "endpoint" THEN Seen(IsStreamable) ELSE 0)
  /\ Len(request.listeners) = Len(response.piped)
  /\ (mode = "openRosa" /\ Seen(IsStreamable) > 0) =>
        /\ Seen(IsStreamable) = 1
        /\ thrown.name = "TypeError"
  /\ calls.point = SelectSeq(calls.finalizer, IsLazyUnit)
  /\ SelectSeq(calls.then, IsNotPointed) = SelectSeq(calls.finalizer, IsDeferred)
  /\ Len(calls.then) = Seen(IsLazyUnit) + Seen(IsDeferred)
  /\ Resolving =>
        Len(calls.failure) = Len(calls.rejected) + Seen(IsAbsent) + Seen(IsClassifiedError)
  /\ Len(calls.success) = Seen(IsPlainValue)
  /\ Len(calls.finalizer) = Seen(IsAbsent) + Seen(IsStreamable) + Seen(IsLazyUnit)
                              + Seen(IsDeferred) + Seen(IsClassifiedError)
                              + Seen(IsPlainValue)

\* A value with isExplicitPromise and then was invoked through point(); its
\* promise fulfilled with a value with pipe and isProblem, which was piped and
\* did not reach failure.
C15_Witness ==
  /\ Len(calls.finalizer) = 2
  /\ calls.finalizer[1].isExplicitPromise /\ calls.finalizer[1].then
  /\ calls.finalizer[2].pipe /\ calls.finalizer[2].isProblem
  /\ Len(calls.point) = 1
  /\ calls.then = <<pointed(calls.finalizer[1])>>
  /\ Len(response.piped) = 1
  /\ calls.failure = <<>>

----------------------------------------------------------------------------
(* C16 *)

\* the awaited Deferred fulfils in this step
FulfilStep ==
  /\ pc = "pending"
  /\ Len(calls.finalizer') = Len(calls.finalizer) + 1

\* the awaited Deferred rejects in this step
RejectStep ==
  /\ pc = "pending"
  /\ calls.rejected' # calls.rejected

\* what a fulfilment with v does, stated as for a value a handler returns
AsReturned(v) ==
  /\ v.absent => calls.failure' = <<emptyResponse>> /\ pc' = "next"
  /\ IsClassifiedError(v) => calls.failure' = <<v>> /\ pc' = "next"
  /\ IsStreamable(v) =>
       /\ calls.failure' = <<>> /\ calls.success' = <<>>
       /\ IF mode = "endpoint"
          THEN response'.piped = <<v.name>> /\ pc' = "streaming"
          ELSE response'.piped = <<>> /\ pc' = "unhandled"
  /\ IsLazyUnit(v) =>
       /\ calls.point' = Append(calls.point, v)
       /\ awaiting' = pointed(v) /\ pc' = "pending"
  /\ IsDeferred(v) =>
       /\ calls.point' = calls.point
       /\ awaiting' = v /\ pc' = "pending"
  /\ IsPlainValue(v) => calls.success' = <<v>> /\ calls.failure' = <<>>

\* what a rejection with e does
AsIs(e) ==
  /\ calls.rejected' = <<e>>
  /\ calls.failure' = <<e>>
  /\ calls.finalizer' = calls.finalizer
  /\ calls.point' = calls.point
  /\ calls.then' = calls.then
  /\ calls.success' = <<>>
  /\ response'.piped = <<>>
  /\ request'.listeners = request.listeners
  /\ awaiting' = Absent
  /\ pc' = "next"

\* C16: the value a Deferred fulfils with goes through the same tests, from
\* the first, as a value the handler returns; the value a Deferred rejects with
\* goes to failure unchanged, once, and through no test, whatever it is.
C16_FulfilClassifiedRejectAsIs ==
  [][/\ FulfilStep => AsReturned(calls.finalizer'[Len(calls.finalizer')])
     /\ RejectStep => AsIs(calls.rejected'[Len(calls.rejected')])]_vars

\* A Deferred fulfilled with another Deferred, which rejected with a
\* Streamable: it went to failure and was not piped.
C16_Witness ==
  /\ Len(calls.finalizer) = 2
  /\ IsDeferred(calls.finalizer[2])
  /\ Rejected
  /\ IsStreamable(calls.rejected[1])
  /\ calls.failure = calls.rejected
  /\ response.piped = <<>>

----------------------------------------------------------------------------
(* C17 *)

\* an error none of sendError's three tests catches
IsUnclassifiedFault(e) ==
  (~e.absent) /\ e.forOpenRosa = <<>> /\ (~e.isProblem)
              /\ e.type # "entity.parse.failed"

\* the error sendError was entered with last
LastError == calls.sendError[Len(calls.sendError)].error

\* the answer to an unclassified fault, but for the text of the message
FaultAnswered(e) ==
  /\ pc = "responded"
  /\ response.statusCode = 500
  /\ response.body.kind = "json"
  /\ (response.body.stack # <<>>) <=> (e.stack # <<>>)
  /\ e.stack # <<>> =>
       /\ Len(response.body.stack[1]) = Len(e.stack[1])
       /\ \A i \in 1..Len(e.stack[1]) : response.body.stack[1][i] = trim(e.stack[1][i])
  /\ calls.stderr = <<e>>

\* C17, as stated: the message is "unhandled exception: " followed by the
\* error's message.
C17_UnhandledMessage ==
  (calls.sendError # <<>> /\ IsUnclassifiedFault(LastError)) =>
    /\ FaultAnswered(LastError)
    /\ response.body.message = <<"unhandled exception: ", LastError.message>>

\* C17, amended: an unclassified fault is answered with status 500 and a JSON
\* body whose message is "Completely unhandled exception: " followed by the
\* error's message; the body holds the stack, split into trimmed lines, if and
\* only if the error has one; the error itself is written to stderr.
C17_CompletelyUnhandledMessage ==
  (calls.sendError # <<>> /\ IsUnclassifiedFault(LastError)) =>
    /\ FaultAnswered(LastError)
    /\ response.body.message = <<"Completely unhandled exception: ", LastError.message>>

\* A fault with a stack of two lines, the second with blanks around it, was
\* answered.
C17_Witness ==
  /\ calls.sendError # <<>>
  /\ IsUnclassifiedFault(LastError)
  /\ LastError.message = "boom"
  /\ LastError.stack = << <<"Error: boom", "   at handler  ">> >>
  /\ response.body.stack = << <<"Error: boom", "at handler">> >>
  /\ response.statusCode = 500

----------------------------------------------------------------------------
(* C18 *)

\* what a call of with or without is said to return, given the object it was
\* called on
Expected(c) ==
  IF c.op = "with" THEN merge(c.before.props, c.data) ELSE omit(c.fields, c.before.props)

\* C18, as stated: with(data) and without(...fields) leave the instance they
\* are called on as it was and return another object, made by the same
\* constructor, that holds the instance's properties overridden by data, or
\* without the named fields; the instances stay frozen.
C18_WithAndWithoutCopy ==
  \A n \in 1..Len(instances.calls) :
    LET c == instances.calls[n]
        this == instances.heap[c.this]
        returned == instances.heap[c.returned]
    IN /\ this = c.before
       /\ c.returned # c.this
       /\ returned.class = this.class
       /\ returned.props = Expected(c)
       /\ this.frozen /\ returned.frozen

----------------------------------------------------------------------------
(* C19 *)

\* openRosaEndpoint's failure continuation was called with an error that is
\* not a Problem
OpenRosaFault ==
  /\ mode = "openRosa"
  /\ calls.failure # <<>>
  /\ IsUnclassifiedFault(calls.failure[1])

\* C19: under openRosaEndpoint an error that is not a Problem reaches the
\* downstream continuation as it is, without forOpenRosa, while the response
\* still carries the OpenRosa headers; sendError then takes its last branch and
\* answers 500 with a JSON body and Content-Type application/json in place of
\* the Content-Type the response carried.
C19_FaultAnsweredAsJson ==
  OpenRosaFault =>
    /\ Len(calls.failure) = 1
    /\ Len(calls.next) = 1
    /\ calls.next[1].arg = calls.failure[1]
    /\ calls.next[1].arg.forOpenRosa = <<>>
    /\ calls.next[1].headers.contentType \in {"text/xml", "text/csv"}
    /\ pc \in {"next", "responded"}
    /\ pc = "responded" =>
         /\ Len(calls.sendError) = 1
         /\ calls.sendError[1].branch = "unhandled"
         /\ calls.sendError[1].error = calls.failure[1]
         /\ response.statusCode = 500
         /\ response.headers.contentType = "application/json"
         /\ response.body.kind = "json"

\* Under openRosaEndpoint the handler's Deferred rejected with an Error; the
\* response carried text/xml when the error was handed on and went out as
\* JSON.
C19_Witness ==
  /\ OpenRosaFault
  /\ Rejected
  /\ calls.failure[1].name = "Error"
  /\ calls.next[1].headers.contentType = "text/xml"
  /\ pc = "responded"
  /\ response.statusCode = 500
  /\ response.headers.contentType = "application/json"

----------------------------------------------------------------------------
(* C20 *)

\* a Deferred fulfilled with a value whose handling raises: under
\* openRosaEndpoint a Streamable (finalizer has no request to listen on) or a
\* value without a code (success sets an undefined status)
RaisesOnFulfilment ==
  /\ mode = "openRosa"
  /\ Len(calls.finalizer) >= 2
  /\ (~Rejected)
  /\ pc # "pending"
  /\ \/ IsStreamable(LastSeen)
     \/ IsPlainValue(LastSeen) /\ LastSeen.code = 0

\* an exception was raised while finalizer ran as a then-callback
RaisedInCallback == Len(calls.finalizer) >= 2 /\ ~thrown.absent

\* C20: an exception raised by finalizer or by success while they handle the
\* value a Deferred fulfilled with reaches nobody: failure is not called, the
\* downstream continuation and sendError never see it, and nothing is sent.
C20_RaiseInContinuationIsLost ==
  /\ RaisesOnFulfilment => RaisedInCallback
  /\ RaisedInCallback =>
       /\ pc = "unhandled"
       /\ calls.failure = <<>>
       /\ calls.next = <<>>
       /\ calls.sendError = <<>>
       /\ response.sent = 0
       /\ ~response.finished

\* Under openRosaEndpoint a Deferred fulfilled with a value without a code:
\* success was entered, raised, and no response went out.
C20_Witness ==
  /\ RaisesOnFulfilment
  /\ IsPlainValue(LastSeen)
  /\ Len(calls.success) = 1
  /\ thrown.name = "RangeError"
  /\ pc = "unhandled"
  /\ calls.failure = <<>>
  /\ response.sent = 0

====
